---- MODULE Spec2Model ----
(***************************************************************************)
(* A model of app.py: one run of main() from start to exit.                *)
(*                                                                         *)
(* Text that the program parses or formats (date strings) is a sequence of *)
(* one-character strings, so that strptime, isoformat, fromisoformat and   *)
(* strftime are computed character by character.  Text that the program    *)
(* only passes through or compares for equality (summary, location, menu   *)
(* choice, fixed messages) is a TLA+ string.                               *)
(***************************************************************************)
EXTENDS Integers, Sequences, FiniteSets, TLC

VARIABLES
    pc,          \* position of main(): "load","auth","menu","branch",
                 \* "fetch_range","display","done"
    tokenFile,   \* token.json on disk
    creds,       \* local variable creds of main()
    tokenReads,  \* number of times token.json was opened for reading
    tokenWrites, \* number of times token.json was opened for writing
    stdout,      \* what print() and tabulate wrote, in order
    prompts,     \* the input() prompts issued, in order
    choice,      \* local variable choice of main()
    start_date,  \* local variable start_date of main()
    end_date,    \* local variable end_date of main()
    calls,       \* the events().list(...).execute() requests issued, in order
    events,      \* local variable events of main()
    credsFrom,   \* how creds was obtained: "none","load","refresh","flow"
    exit         \* how the run ended: "running", "normal", or the name of
                 \* the exception that left main() uncaught

vars == <<pc, tokenFile, creds, tokenReads, tokenWrites, stdout, prompts,
          choice, start_date, end_date, calls, events, credsFrom, exit>>

\* The largest number of events the provider's calendar holds.
MaxEvents == 2

(***************************************************************************)
(* Python values                                                           *)
(***************************************************************************)

\* Python's None, where a string could stand.
None == <<"None">>

\* dict.get(k, default)
Get(d, k, default) == IF k \in DOMAIN d THEN d[k] ELSE default

\* An exception raised out of an expression.
Raise(name) == [exc |-> name]
IsExc(r) == "exc" \in DOMAIN r

Digits == {"0", "1", "2", "3", "4", "5", "6", "7", "8", "9"}
NonZero == Digits \ {"0"}
DigitChars == <<"0", "1", "2", "3", "4", "5", "6", "7", "8", "9">>

\* int() of one decimal digit
DigitVal(c) == CHOOSE n \in 0..9 : DigitChars[n + 1] = c

RECURSIVE IntOf(_)
\* int() of a string of decimal digits
IntOf(s) ==
    IF s = <<>> THEN 0
    ELSE 10 * IntOf(SubSeq(s, 1, Len(s) - 1)) + DigitVal(s[Len(s)])

AllDigits(s) == \A i \in 1..Len(s) : s[i] \in Digits

\* "%02d" % n
Pad2(n) == <<DigitChars[((n \div 10) % 10) + 1], DigitChars[(n % 10) + 1]>>

\* "%04d" % n
Pad4(n) == Pad2(n \div 100) \o Pad2(n % 100)

\* "%06d" % n
Pad6(n) == Pad2(n \div 10000) \o Pad4(n % 10000)

RECURSIVE Remove(_, _)
\* str.replace(c, "") for a one-character c
Remove(s, c) ==
    IF s = <<>> THEN <<>>
    ELSE IF Head(s) = c THEN Remove(Tail(s), c)
    ELSE <<Head(s)>> \o Remove(Tail(s), c)

\* c in s
Contains(s, c) == \E i \in 1..Len(s) : s[i] = c

(***************************************************************************)
(* datetime                                                                *)
(***************************************************************************)

IsLeap(y) == (y % 4 = 0) /\ ((y % 100 # 0) \/ (y % 400 = 0))

DaysInMonth(y, m) ==
    IF m = 2 THEN (IF IsLeap(y) THEN 29 ELSE 28)
    ELSE IF m \in {4, 6, 9, 11} THEN 30
    ELSE 31

\* datetime.datetime(y, m, d, H, M, S, us): ValueError outside the ranges.
datetime(y, m, d, H, M, S, us) ==
    IF /\ y \in 1..9999
       /\ m \in 1..12
       /\ d >= 1 /\ d <= DaysInMonth(y, m)
       /\ H \in 0..23 /\ M \in 0..59 /\ S \in 0..59 /\ us \in 0..999999
    THEN [year |-> y, month |-> m, day |-> d,
          hour |-> H, minute |-> M, second |-> S, microsecond |-> us]
    ELSE Raise("ValueError")

\* The directive %d of strptime: 3[0-1] | [1-2]\d | 0[1-9] | [1-9] | " "[1-9]
DayToken(t) ==
    \/ /\ Len(t) = 2
       /\ \/ t[1] = "3" /\ t[2] \in {"0", "1"}
          \/ t[1] \in {"1", "2"} /\ t[2] \in Digits
          \/ t[1] \in {"0", " "} /\ t[2] \in NonZero
    \/ Len(t) = 1 /\ t[1] \in NonZero

\* The directive %m of strptime: 1[0-2] | 0[1-9] | [1-9]
MonthToken(t) ==
    \/ /\ Len(t) = 2
       /\ \/ t[1] = "1" /\ t[2] \in {"0", "1", "2"}
          \/ t[1] = "0" /\ t[2] \in NonZero
    \/ Len(t) = 1 /\ t[1] \in NonZero

\* int() of a %d token (a leading blank is skipped)
TokenVal(t) == IF t[1] = " " THEN IntOf(Tail(t)) ELSE IntOf(t)

\* datetime.datetime.strptime(s, "%d/%m/%Y"): the whole string must match
\* <day>/<month>/<four digits> and name a day of the calendar.
strptime(s) ==
    LET Match(dl, ml) ==
            /\ Len(s) = dl + ml + 6
            /\ s[dl + 1] = "/"
            /\ s[dl + ml + 2] = "/"
            /\ DayToken(SubSeq(s, 1, dl))
            /\ MonthToken(SubSeq(s, dl + 2, dl + ml + 1))
            /\ AllDigits(SubSeq(s, dl + ml + 3, dl + ml + 6))
        splits == {sp \in {1, 2} \X {1, 2} : Match(sp[1], sp[2])}
    IN  IF splits = {} THEN Raise("ValueError")
        ELSE LET sp == CHOOSE x \in splits : TRUE
                 dl == sp[1]
                 ml == sp[2]
             IN  datetime(IntOf(SubSeq(s, dl + ml + 3, dl + ml + 6)),
                          TokenVal(SubSeq(s, dl + 2, dl + ml + 1)),
                          TokenVal(SubSeq(s, 1, dl)), 0, 0, 0, 0)

\* datetime.replace(hour=H, minute=M, second=S, microsecond=us)
replace(dt, H, M, S, us) ==
    [dt EXCEPT !.hour = H, !.minute = M, !.second = S, !.microsecond = us]

\* datetime.isoformat(): YYYY-MM-DDTHH:MM:SS, and .ffffff when microsecond # 0
isoformat(dt) ==
    Pad4(dt.year) \o <<"-">> \o Pad2(dt.month) \o <<"-">> \o Pad2(dt.day)
      \o <<"T">> \o Pad2(dt.hour) \o <<":">> \o Pad2(dt.minute)
      \o <<":">> \o Pad2(dt.second)
      \o (IF dt.microsecond = 0 THEN <<>>
          ELSE <<".">> \o Pad6(dt.microsecond))

\* datetime.datetime.fromisoformat(s) on the forms YYYY-MM-DD and
\* YYYY-MM-DD<sep>HH[:MM[:SS]], <sep> any one character; every other string
\* is a ValueError here.
fromisoformat(s) ==
    LET n == Len(s)
        DateOk == /\ n >= 10
                  /\ AllDigits(SubSeq(s, 1, 4)) /\ s[5] = "-"
                  /\ AllDigits(SubSeq(s, 6, 7)) /\ s[8] = "-"
                  /\ AllDigits(SubSeq(s, 9, 10))
        TimeOk == \/ n = 10
                  \/ n = 13 /\ AllDigits(SubSeq(s, 12, 13))
                  \/ /\ n = 16
                     /\ AllDigits(SubSeq(s, 12, 13)) /\ s[14] = ":"
                     /\ AllDigits(SubSeq(s, 15, 16))
                  \/ /\ n = 19
                     /\ AllDigits(SubSeq(s, 12, 13)) /\ s[14] = ":"
                     /\ AllDigits(SubSeq(s, 15, 16)) /\ s[17] = ":"
                     /\ AllDigits(SubSeq(s, 18, 19))
        Part(i, j) == IF n >= j THEN IntOf(SubSeq(s, i, j)) ELSE 0
    IN  IF DateOk /\ TimeOk
        THEN datetime(IntOf(SubSeq(s, 1, 4)), IntOf(SubSeq(s, 6, 7)),
                      IntOf(SubSeq(s, 9, 10)),
                      Part(12, 13), Part(15, 16), Part(18, 19), 0)
        ELSE Raise("ValueError")

\* start_date.strftime("%d/%m/%Y")
strftime_dmY(dt) ==
    Pad2(dt.day) \o <<"/">> \o Pad2(dt.month) \o <<"/">> \o Pad4(dt.year)

\* start_date.strftime("%H:%M:%S")
strftime_HMS(dt) ==
    Pad2(dt.hour) \o <<":">> \o Pad2(dt.minute) \o <<":">> \o Pad2(dt.second)

(***************************************************************************)
(* The environment: token.json, the user's keyboard, the provider          *)
(***************************************************************************)

\* google.oauth2.credentials.Credentials: valid is "has a token that is not
\* expired"; expired and refresh_token are what main() tests besides.
Credentials(token, expired, refresh_token) ==
    [kind |-> "creds", token |-> token, expired |-> expired,
     refresh_token |-> refresh_token]

NoCreds == [kind |-> "None"]

Valid(c) == c.token /\ ~c.expired

\* What token.json can be when main() starts: not there, not readable
\* (open() fails), not a credential document, or a stored credential.
TokenFiles ==
    {[kind |-> "absent"], [kind |-> "unreadable"], [kind |-> "malformed"]}
      \cup {Credentials(t, e, r) : t \in BOOLEAN, e \in BOOLEAN, r \in BOOLEAN}

\* What the user may type at the menu.
Choices == {"1", "2", "3", ""}

\* What the user may type at a date prompt.
D_01_01_2024 == <<"0", "1", "/", "0", "1", "/", "2", "0", "2", "4">>
D_31_01_2024 == <<"3", "1", "/", "0", "1", "/", "2", "0", "2", "4">>
D_1_2_2024 == <<"1", "/", "2", "/", "2", "0", "2", "4">>
D_31_13_2024 == <<"3", "1", "/", "1", "3", "/", "2", "0", "2", "4">>
D_29_02_2023 == <<"2", "9", "/", "0", "2", "/", "2", "0", "2", "3">>
D_not_a_date == <<"n", "o", "t", "-", "a", "-", "d", "a", "t", "e">>

DateInputs ==
    {D_01_01_2024, D_31_01_2024, D_1_2_2024,
     D_31_13_2024, D_29_02_2023, D_not_a_date}

\* Timestamps of the provider's records.
T_2023_12_31_23 == <<"2", "0", "2", "3", "-", "1", "2", "-", "3", "1", "T",
                     "2", "3", ":", "0", "0", ":", "0", "0", "Z">>
T_2024_01_01_01 == <<"2", "0", "2", "4", "-", "0", "1", "-", "0", "1", "T",
                     "0", "1", ":", "0", "0", ":", "0", "0", "Z">>
T_2024_01_31_end == <<"2", "0", "2", "4", "-", "0", "1", "-", "3", "1", "T",
                      "2", "3", ":", "5", "9", ":", "5", "8", "Z">>
T_2024_02_01_00 == <<"2", "0", "2", "4", "-", "0", "2", "-", "0", "1", "T",
                     "0", "0", ":", "0", "0", ":", "0", "0", "Z">>
T_2024_02_01_01 == <<"2", "0", "2", "4", "-", "0", "2", "-", "0", "1", "T",
                     "0", "1", ":", "0", "0", ":", "0", "0", "Z">>
T_2024_03_15_1430 == <<"2", "0", "2", "4", "-", "0", "3", "-", "1", "5", "T",
                       "1", "4", ":", "3", "0", ":", "0", "0", "Z">>
T_2024_03_15_1500 == <<"2", "0", "2", "4", "-", "0", "3", "-", "1", "5", "T",
                       "1", "5", ":", "0", "0", ":", "0", "0", "Z">>
Day_2024_01_31 == <<"2", "0", "2", "4", "-", "0", "1", "-", "3", "1">>
Day_2024_03_15 == <<"2", "0", "2", "4", "-", "0", "3", "-", "1", "5">>
Day_2024_03_16 == <<"2", "0", "2", "4", "-", "0", "3", "-", "1", "6">>

\* Records the provider's calendar may hold (the "items" of a response).
EvTimed ==
    [summary |-> "Standup",
     start |-> [dateTime |-> T_2024_03_15_1430],
     end |-> [dateTime |-> T_2024_03_15_1500]]
EvAllDay ==
    [summary |-> "Offsite", location |-> "HQ",
     start |-> [date |-> Day_2024_03_15],
     end |-> [date |-> Day_2024_03_16]]
EvOverlap ==
    [summary |-> "", location |-> "",
     start |-> [dateTime |-> T_2023_12_31_23],
     end |-> [dateTime |-> T_2024_01_01_01]]
EvLastSecond ==
    [location |-> "Lab",
     start |-> [dateTime |-> T_2024_01_31_end, date |-> Day_2024_01_31],
     end |-> [dateTime |-> T_2024_02_01_00]]
EvPastEnd ==
    [summary |-> "Review", location |-> "Room 1",
     start |-> [dateTime |-> T_2024_02_01_00],
     end |-> [dateTime |-> T_2024_02_01_01]]
EvNoStart == [summary |-> "Broken"]
EvEmptyStart == [summary |-> "Hollow", start |-> <<>>]

EventPool ==
    {EvTimed, EvAllDay, EvOverlap, EvLastSecond, EvPastEnd,
     EvNoStart, EvEmptyStart}

\* The calendars the provider may hold.
Calendars == {c \in SUBSET EventPool : Cardinality(c) <= MaxEvents}

\* The instant a provider timestamp names, as <<Y, M, D, h, m, s>>; a
\* date-only value is the start of that day.
Instant(s) ==
    <<IntOf(SubSeq(s, 1, 4)), IntOf(SubSeq(s, 6, 7)), IntOf(SubSeq(s, 9, 10)),
      IF Len(s) >= 19 THEN IntOf(SubSeq(s, 12, 13)) ELSE 0,
      IF Len(s) >= 19 THEN IntOf(SubSeq(s, 15, 16)) ELSE 0,
      IF Len(s) >= 19 THEN IntOf(SubSeq(s, 18, 19)) ELSE 0>>

RECURSIVE Before(_, _)
\* a is an earlier instant than b
Before(a, b) ==
    /\ a # <<>>
    /\ \/ Head(a) < Head(b)
       \/ Head(a) = Head(b) /\ Before(Tail(a), Tail(b))

NotAfter(a, b) == a = b \/ Before(a, b)

\* Whether the provider can place a record in time.
Timed(e) ==
    /\ "start" \in DOMAIN e /\ "end" \in DOMAIN e
    /\ DOMAIN e.start # {} /\ DOMAIN e.end # {}

When(t) == Instant(Get(t, "dateTime", Get(t, "date", None)))

\* events().list with timeMin/timeMax: timeMin is an exclusive lower bound
\* on a record's end, timeMax an exclusive upper bound on its start.
Selected(e, req) ==
    \/ "timeMin" \notin DOMAIN req
    \/ ~Timed(e)
    \/ /\ Before(Instant(req.timeMin), When(e.end))
       /\ Before(When(e.start), Instant(req.timeMax))

\* orderBy="startTime": the selected records, earliest start first.
Responses(cal, req) ==
    LET sel == {e \in cal : Selected(e, req)}
        n == Cardinality(sel)
    IN  {r \in [1..n -> sel] :
            /\ \A i, j \in 1..n : i # j => r[i] # r[j]
            /\ \A i, j \in 1..n :
                 (i < j /\ Timed(r[i]) /\ Timed(r[j]))
                   => NotAfter(When(r[i].start), When(r[j].start))}

\* How execute() can end: with a response, with HttpError (the provider
\* answered with an error status), or with an exception of the transport
\* underneath (the connection failed, the token was rejected).
ExecuteOutcomes == {"ok", "HttpError", "ServerNotFoundError", "RefreshError"}

(***************************************************************************)
(* fetch_events_by_date_range, fetch_all_events                            *)
(***************************************************************************)

\* time_min of fetch_events_by_date_range for a start date that parses: the
\* date at 00:00:00, ISO format, "Z" appended.
time_min(start) ==
    isoformat(replace(strptime(start), 0, 0, 0, 0)) \o <<"Z">>

\* time_max without the move to the end of the day.
time_max_midnight(end) ==
    isoformat(strptime(end)) \o <<"Z">>

\* time_max of fetch_events_by_date_range for an end date that parses: the
\* date at 23:59:59, ISO format, "Z" appended.
time_max(end) ==
    isoformat(replace(strptime(end), 23, 59, 59, 0)) \o <<"Z">>

\* The request fetch_events_by_date_range builds, or the ValueError of the
\* first date that does not parse; both dates are parsed before the request
\* is built.
RangeRequest(start, end) ==
    IF IsExc(strptime(start)) THEN strptime(start)
    ELSE IF IsExc(strptime(end)) THEN strptime(end)
    ELSE [calendarId |-> "primary",
          timeMin |-> time_min(start),
          timeMax |-> time_max(end),
          maxResults |-> 2500,
          singleEvents |-> TRUE,
          orderBy |-> "startTime"]

\* The request fetch_all_events builds.
AllRequest ==
    [calendarId |-> "primary",
     maxResults |-> 2500,
     singleEvents |-> TRUE,
     orderBy |-> "startTime"]

(***************************************************************************)
(* display_events                                                          *)
(***************************************************************************)

AllDay == <<"A", "l", "l", " ", "D", "a", "y">>

\* The start string taken from the date field first.
start_iso_date_first(event) ==
    Get(event["start"], "date", Get(event["start"], "dateTime", None))

\* event["start"].get("dateTime", event["start"].get("date"))
start_iso(event) ==
    Get(event["start"], "dateTime", Get(event["start"], "date", None))

\* One pass of the loop body of display_events: the row appended to table,
\* or the exception the body raises.
Row(event) ==
    IF "start" \notin DOMAIN event THEN Raise("KeyError")
    ELSE IF start_iso(event) = None THEN Raise("AttributeError")
    ELSE LET iso == start_iso(event)
             parsed == fromisoformat(Remove(iso, "Z"))
         IN  IF IsExc(parsed) THEN parsed
             ELSE [name |-> Get(event, "summary", "No Title"),
                   date |-> strftime_dmY(parsed),
                   time |-> IF Contains(iso, "T") THEN strftime_HMS(parsed)
                            ELSE AllDay,
                   location |-> Get(event, "location", "No Location")]

Text(t) == [kind |-> "text", text |-> t]
Table(rows) == [kind |-> "table", rows |-> rows]

\* display_events that prints each row as soon as it is built.
display_events_rowwise(evs) ==
    LET rows == [i \in 1..Len(evs) |-> Row(evs[i])]
        bad == {i \in 1..Len(evs) : IsExc(rows[i])}
        first == IF bad = {} THEN Len(evs) + 1
                 ELSE CHOOSE i \in bad : \A j \in bad : i <= j
    IN  IF evs = <<>> THEN [out |-> <<Text("No events found.")>>, raised |-> ""]
        ELSE [out |-> <<Table(SubSeq(rows, 1, first - 1))>>,
              raised |-> IF bad = {} THEN "" ELSE rows[first].exc]

\* display_events(events): what it prints and the exception it raises ("" when
\* it returns).  The table is printed once, after the loop, so a loop body
\* that raises leaves nothing printed.
display_events(evs) ==
    LET rows == [i \in 1..Len(evs) |-> Row(evs[i])]
        bad == {i \in 1..Len(evs) : IsExc(rows[i])}
    IN  IF evs = <<>> THEN [out |-> <<Text("No events found.")>>, raised |-> ""]
        ELSE IF bad = {} THEN [out |-> <<Table(rows)>>, raised |-> ""]
        ELSE [out |-> <<>>,
              raised |-> rows[CHOOSE i \in bad : \A j \in bad : i <= j].exc]

(***************************************************************************)
(* main                                                                    *)
(***************************************************************************)

Unset == "<unset>"
UnsetDate == <<>>

Init ==
    /\ pc = "load"
    /\ tokenFile \in TokenFiles
    /\ creds = NoCreds
    /\ credsFrom = "none"
    /\ tokenReads = 0
    /\ tokenWrites = 0
    /\ stdout = <<>>
    /\ prompts = <<>>
    /\ choice = Unset
    /\ start_date = UnsetDate
    /\ end_date = UnsetDate
    /\ calls = <<>>
    /\ events = <<>>
    /\ exit = "running"

\* except clauses that catch every exception.
CaughtAny(exc) == TRUE

\* except HttpError as error
Caught(exc) == exc = "HttpError"

ErrorLine(exc) ==
    [kind |-> "error", text |-> "An error occurred: ", error |-> exc]

\* An exception raised inside the try block of main, with out printed so
\* far: the except clause prints it when it catches it, otherwise it leaves
\* main.
Handle(out, exc) ==
    /\ pc' = "done"
    /\ stdout' = IF Caught(exc) THEN Append(out, ErrorLine(exc)) ELSE out
    /\ exit' = IF Caught(exc) THEN "normal" ELSE exc

\* An exception raised before the try block of main.
Abort(exc) ==
    /\ pc' = "done"
    /\ exit' = exc

\* if os.path.exists(token_path): try: creds = from_authorized_user_file(...)
\* except ValueError: print(...)
LoadToken ==
    /\ pc = "load"
    /\ UNCHANGED <<tokenFile, tokenWrites, prompts, choice, start_date,
                   end_date, calls, events>>
    /\ \/ /\ tokenFile.kind = "absent"
          /\ pc' = "auth"
          /\ UNCHANGED <<creds, credsFrom, tokenReads, stdout, exit>>
       \/ /\ tokenFile.kind = "creds"
          /\ tokenReads' = tokenReads + 1
          /\ creds' = tokenFile
          /\ credsFrom' = "load"
          /\ pc' = "auth"
          /\ UNCHANGED <<stdout, exit>>
       \/ /\ tokenFile.kind = "malformed"
          /\ tokenReads' = tokenReads + 1
          /\ stdout' = Append(stdout,
                 Text("Invalid token.json file. Regenerating credentials."))
          /\ pc' = "auth"
          /\ UNCHANGED <<creds, credsFrom, exit>>
       \/ /\ tokenFile.kind = "unreadable"
          /\ tokenReads' = tokenReads + 1
          /\ Abort("PermissionError")
          /\ UNCHANGED <<creds, credsFrom, stdout>>

\* The login condition with the validity test dropped.
NeedsLoginAlways(c) == TRUE

\* if not creds or not creds.valid
NeedsLogin(c) == IF c = NoCreds THEN TRUE ELSE ~Valid(c)

\* if creds and creds.expired and creds.refresh_token
CanRefresh(c) == c # NoCreds /\ c.expired /\ c.refresh_token

\* with open(token_path, "w") as token: token.write(creds.to_json())
Save(c) ==
    /\ tokenFile' = c
    /\ tokenWrites' = tokenWrites + 1

\* The credentials are valid: main goes on to the try block.
KeepCreds ==
    /\ pc = "auth"
    /\ ~NeedsLogin(creds)
    /\ pc' = "menu"
    /\ UNCHANGED <<tokenFile, creds, credsFrom, tokenReads, tokenWrites,
                   stdout, prompts, choice, start_date, end_date, calls,
                   events, exit>>

\* creds.refresh(Request()), then the save; refresh raises RefreshError when
\* the provider rejects the refresh token.
Refresh ==
    /\ pc = "auth"
    /\ NeedsLogin(creds)
    /\ CanRefresh(creds)
    /\ UNCHANGED <<tokenReads, stdout, prompts, choice, start_date, end_date,
                   calls, events>>
    /\ \/ /\ creds' = Credentials(TRUE, FALSE, TRUE)
          /\ credsFrom' = "refresh"
          /\ Save(creds')
          /\ pc' = "menu"
          /\ exit' = exit
       \/ /\ Abort("RefreshError")
          /\ UNCHANGED <<tokenFile, creds, credsFrom, tokenWrites>>

\* InstalledAppFlow.from_client_secrets_file(...).run_local_server(port=3000),
\* then the save; the flow raises when credentials.json is missing or the
\* user does not complete the sign-in.
SignIn ==
    /\ pc = "auth"
    /\ NeedsLogin(creds)
    /\ ~CanRefresh(creds)
    /\ UNCHANGED <<tokenReads, stdout, prompts, choice, start_date, end_date,
                   calls, events>>
    /\ \/ /\ \E r \in BOOLEAN : creds' = Credentials(TRUE, FALSE, r)
          /\ credsFrom' = "flow"
          /\ Save(creds')
          /\ pc' = "menu"
          /\ exit' = exit
       \/ /\ Abort("FlowError")
          /\ UNCHANGED <<tokenFile, creds, credsFrom, tokenWrites>>

MenuLines ==
    <<Text("Choose an option:"), Text("1. Fetch all events"),
      Text("2. Fetch events between two dates")>>

\* A dispatch that takes every choice other than "1" for a ranged fetch.
BranchElse(c) == IF c = "1" THEN "fetch_all" ELSE "dates"

\* if choice == "1": ... elif choice == "2": ... else: ...
Branch(c) ==
    IF c = "1" THEN "fetch_all"
    ELSE IF c = "2" THEN "dates"
    ELSE "invalid"

\* service = build(...); the menu; choice = input(...)
Menu ==
    /\ pc = "menu"
    /\ stdout' = stdout \o MenuLines
    /\ prompts' = Append(prompts, "Enter your choice (1 or 2): ")
    /\ \E c \in Choices : choice' = c
    /\ pc' = "branch"
    /\ UNCHANGED <<tokenFile, creds, credsFrom, tokenReads, tokenWrites,
                   start_date, end_date, calls, events, exit>>

\* service.events().list(**req).execute() with out printed so far: the
\* items of the response become events, or the exception is raised.
Execute(req, out) ==
    /\ calls' = Append(calls, req)
    /\ \E outcome \in ExecuteOutcomes :
         IF outcome = "ok"
         THEN /\ \E cal \in Calendars : events' \in Responses(cal, req)
              /\ pc' = "display"
              /\ stdout' = out
              /\ exit' = exit
         ELSE /\ Handle(out, outcome)
              /\ events' = events

\* choice "1": print("Fetching all events..."); events = fetch_all_events(service)
FetchAll ==
    /\ pc = "branch"
    /\ Branch(choice) = "fetch_all"
    /\ Execute(AllRequest, Append(stdout, Text("Fetching all events...")))
    /\ UNCHANGED <<tokenFile, creds, credsFrom, tokenReads, tokenWrites,
                   prompts, choice, start_date, end_date>>

\* choice "2": the two date prompts and the "Fetching events between" line
AskDates ==
    /\ pc = "branch"
    /\ Branch(choice) = "dates"
    /\ prompts' = prompts \o <<"Enter the start date (dd/mm/yyyy): ",
                               "Enter the end date (dd/mm/yyyy): ">>
    /\ \E s \in DateInputs, e \in DateInputs :
         /\ start_date' = s
         /\ end_date' = e
         /\ stdout' = Append(stdout, [kind |-> "fetching", text |-> "Fetching events between ", start |-> s, end |-> e])
    /\ pc' = "fetch_range"
    /\ UNCHANGED <<tokenFile, creds, credsFrom, tokenReads, tokenWrites,
                   choice, calls, events, exit>>

\* events = fetch_events_by_date_range(service, start_date, end_date)
FetchRange ==
    /\ pc = "fetch_range"
    /\ LET req == RangeRequest(start_date, end_date)
       IN  IF IsExc(req)
           THEN /\ Handle(stdout, req.exc)
                /\ UNCHANGED <<calls, events>>
           ELSE Execute(req, stdout)
    /\ UNCHANGED <<tokenFile, creds, credsFrom, tokenReads, tokenWrites,
                   prompts, choice, start_date, end_date>>

\* else: print("Invalid choice!"); return
InvalidChoice ==
    /\ pc = "branch"
    /\ Branch(choice) = "invalid"
    /\ stdout' = Append(stdout, Text("Invalid choice!"))
    /\ pc' = "done"
    /\ exit' = "normal"
    /\ UNCHANGED <<tokenFile, creds, credsFrom, tokenReads, tokenWrites,
                   prompts, choice, start_date, end_date, calls, events>>

\* display_events(events), the last statement of the try block
Display ==
    /\ pc = "display"
    /\ LET r == display_events(events)
       IN  IF r.raised = ""
           THEN /\ stdout' = stdout \o r.out
                /\ pc' = "done"
                /\ exit' = "normal"
           ELSE Handle(stdout \o r.out, r.raised)
    /\ UNCHANGED <<tokenFile, creds, credsFrom, tokenReads, tokenWrites,
                   prompts, choice, start_date, end_date, calls, events>>

Next ==
    \/ LoadToken
    \/ KeepCreds
    \/ Refresh
    \/ SignIn
    \/ Menu
    \/ FetchAll
    \/ AskDates
    \/ FetchRange
    \/ InvalidChoice
    \/ Display

Spec == Init /\ [][Next]_vars

(***************************************************************************)
(* Properties                                                              *)
(***************************************************************************)

\* The tables printed so far.
Tables == {k \in 1..Len(stdout) : stdout[k].kind = "table"}

\* Whether a table or the "No events found." line was printed.
Displayed ==
    \E k \in 1..Len(stdout) :
        \/ stdout[k].kind = "table"
        \/ stdout[k] = Text("No events found.")

\* A record with no start field, or a start with neither dateTime nor date.
Malformed(e) ==
    IF "start" \notin DOMAIN e THEN TRUE
    ELSE DOMAIN e["start"] \cap {"dateTime", "date"} = {}

\* The start string of a well-formed record: dateTime when present.
Chosen(e) ==
    IF "dateTime" \in DOMAIN e["start"] THEN e["start"]["dateTime"]
    ELSE e["start"]["date"]

\* dd/mm/yyyy read off an ISO string YYYY-MM-DD...
DateOf(iso) ==
    <<iso[9], iso[10], "/", iso[6], iso[7], "/",
      iso[1], iso[2], iso[3], iso[4]>>

\* HH:MM:SS read off an ISO string YYYY-MM-DDTHH:MM:SS...
TimeOf(iso) == SubSeq(iso, 12, 19)

Parses(d) == ~IsExc(strptime(d))

\* A request that carries a time window.
Windowed(req) == {"timeMin", "timeMax"} \subseteq DOMAIN req

\* C1: a failure of the provider's list call ends the run normally, with
\* "An error occurred: ..." as the last thing printed and neither a table
\* nor "No events found." printed.
C1_FetchFailureCaught ==
    [][(calls' # calls /\ pc' = "done")
         => /\ exit' = "normal"
            /\ stdout'[Len(stdout')].kind = "error"
            /\ ~Displayed']_vars

\* C2: the display step prints nothing and fails when any record is
\* malformed, wherever it stands; otherwise it prints one row per event, in
\* the order of the events.
C2_NoPartialTable ==
    [][pc = "display"
         => IF \E i \in 1..Len(events) : Malformed(events[i])
            THEN /\ stdout' = stdout
                 /\ pc' = "done"
                 /\ exit' \in {"KeyError", "AttributeError"}
            ELSE /\ exit' = "normal"
                 /\ Len(stdout') = Len(stdout) + 1
                 /\ IF events = <<>>
                    THEN stdout'[Len(stdout')] = Text("No events found.")
                    ELSE LET t == stdout'[Len(stdout')]
                         IN  /\ t.kind = "table"
                             /\ Len(t.rows) = Len(events)
                             /\ \A i \in 1..Len(events) :
                                  /\ t.rows[i].name
                                       = Get(events[i], "summary", "No Title")
                                  /\ t.rows[i].date = DateOf(Chosen(events[i]))]_vars

\* C2 witness: a malformed record behind a well-formed one stopped the
\* display step.
C2_Witness ==
    /\ pc = "done"
    /\ exit = "KeyError"
    /\ Len(events) = 2
    /\ events[1] = EvTimed
    /\ events[2] = EvNoStart

\* C3: when a date typed for choice "2" does not parse, the fetch fails with
\* no list call issued, no further prompt, nothing more printed, and the
\* run ends with the uncaught ValueError.
C3_BadDateAborts ==
    [][(/\ pc = "fetch_range"
        /\ \/ {start_date, end_date} \cap {D_31_13_2024, D_not_a_date} # {}
           \/ ~Parses(start_date)
           \/ ~Parses(end_date))
         => /\ calls' = calls
            /\ prompts' = prompts
            /\ stdout' = stdout
            /\ pc' = "done"
            /\ exit' = "ValueError"]_vars

\* C3 witness: the start date parsed, the end date did not, and the run
\* ended with the ValueError and no call.
C3_Witness ==
    /\ pc = "done"
    /\ start_date = D_01_01_2024
    /\ end_date = D_31_13_2024
    /\ exit = "ValueError"
    /\ calls = <<>>

\* The instant a printed row shows, as <<Y, M, D, h, m, s>>.
RowInstant(row) ==
    <<IntOf(SubSeq(row.date, 7, 10)), IntOf(SubSeq(row.date, 4, 5)),
      IntOf(SubSeq(row.date, 1, 2)),
      IF row.time = AllDay THEN 0 ELSE IntOf(SubSeq(row.time, 1, 2)),
      IF row.time = AllDay THEN 0 ELSE IntOf(SubSeq(row.time, 4, 5)),
      IF row.time = AllDay THEN 0 ELSE IntOf(SubSeq(row.time, 7, 8))>>

\* C4: in a ranged run every printed row starts inside the requested window,
\* from the start date at 00:00:00 to the end date at 23:59:59.
C4_RowsInsideWindow ==
    \A k \in Tables :
        choice = "2"
          => \A i \in 1..Len(stdout[k].rows) :
               /\ NotAfter(Instant(calls[1].timeMin),
                           RowInstant(stdout[k].rows[i]))
               /\ NotAfter(RowInstant(stdout[k].rows[i]),
                           Instant(calls[1].timeMax))

\* C5: token.json is read at most once and only at startup, written at most
\* once and only in the authentication step before any prompt or call,
\* written exactly when the credentials were refreshed or newly obtained,
\* and never changed once valid credentials were loaded.
C5_TokenFileOnce ==
    /\ [](tokenReads <= 1 /\ tokenWrites <= 1)
    /\ [](tokenWrites = 1 <=> credsFrom \in {"refresh", "flow"})
    /\ [][tokenReads' # tokenReads => pc = "load"]_vars
    /\ [][tokenWrites' # tokenWrites
            => pc = "auth" /\ prompts = <<>> /\ calls = <<>>]_vars
    /\ [][tokenFile' # tokenFile => tokenWrites' = tokenWrites + 1]_vars
    /\ [][(credsFrom = "load" /\ creds.token /\ ~creds.expired)
            => (tokenFile' = tokenFile /\ tokenWrites' = tokenWrites)]_vars

\* C5 witness: a run that read the file, refreshed, wrote it once and went
\* on to issue a list call.
C5_Witness ==
    /\ tokenReads = 1
    /\ tokenWrites = 1
    /\ credsFrom = "refresh"
    /\ calls # <<>>

\* C6: credentials that are not valid are refreshed whenever they carry a
\* refresh token and replaced by the sign-in flow only otherwise; an
\* unreadable or malformed token file is discarded and the run goes on to
\* sign in; the menu is reached only with valid credentials from the load,
\* the refresh or the sign-in.
C6_AuthRecovery ==
    [][/\ (pc = "load" /\ tokenFile.kind \in {"unreadable", "malformed"})
            => (pc' = "auth" /\ creds' = NoCreds)
       /\ (pc = "auth" /\ creds # NoCreds /\ pc' = "menu")
            => IF creds.token /\ ~creds.expired THEN credsFrom' = "load"
               ELSE IF creds.refresh_token THEN credsFrom' = "refresh"
               ELSE credsFrom' = "flow"
       /\ (pc = "auth" /\ creds = NoCreds /\ pc' = "menu")
            => credsFrom' = "flow"
       /\ pc' = "menu"
            => (creds' # NoCreds /\ credsFrom' \in {"load", "refresh", "flow"})]_vars

\* The list calls a finished run has issued for its choice; for choice "2"
\* with a date that does not parse, ranged is what the statement allows.
CallsPerChoice(ranged) ==
    /\ Len(calls) <= 1
    /\ choice \notin {Unset, "1", "2"}
         => /\ pc \in {"branch", "done"}
            /\ calls = <<>>
            /\ prompts = <<"Enter your choice (1 or 2): ">>
            /\ ~Displayed
            /\ pc = "done"
                 => (exit = "normal"
                       /\ stdout[Len(stdout)] = Text("Invalid choice!"))
    /\ (pc = "done" /\ choice = "1")
         => (Len(calls) = 1 /\ ~Windowed(calls[1]))
    /\ (pc = "done" /\ choice = "2")
         => IF Parses(start_date) /\ Parses(end_date)
            THEN Len(calls) = 1 /\ Windowed(calls[1])
            ELSE ranged

\* C7 as stated: any other choice prints "Invalid choice!" and exits
\* normally with no call, no date prompt and no display; choice "1" issues
\* exactly one unbounded call and choice "2" exactly one windowed call.
C7_OneCallPerChoice == CallsPerChoice(Len(calls) = 1 /\ Windowed(calls[1]))

\* C7 amended: as above, but choice "2" issues its one windowed call only
\* when both dates parse, and no call at all otherwise.
C7_OneCallWhenDatesParse == CallsPerChoice(calls = <<>>)

\* C7 witness: a run that took a choice other than "1" and "2" and ended
\* on "Invalid choice!".
C7_Witness ==
    /\ pc = "done"
    /\ choice = "3"
    /\ exit = "normal"
    /\ calls = <<>>
    /\ stdout[Len(stdout)] = Text("Invalid choice!")

Z_2024_01_01_000000 ==
    <<"2", "0", "2", "4", "-", "0", "1", "-", "0", "1", "T",
      "0", "0", ":", "0", "0", ":", "0", "0", "Z">>
Z_2024_01_31_235959 ==
    <<"2", "0", "2", "4", "-", "0", "1", "-", "3", "1", "T",
      "2", "3", ":", "5", "9", ":", "5", "9", "Z">>

\* YYYY-MM-DDTHH:MM:SSZ
IsoShape(s) ==
    /\ Len(s) = 20
    /\ s[5] = "-" /\ s[8] = "-" /\ s[11] = "T"
    /\ s[14] = ":" /\ s[17] = ":" /\ s[20] = "Z"
    /\ \A i \in (1..19) \ {5, 8, 11, 14, 17} : s[i] \in Digits

\* C8: when both dates parse, the ranged fetch issues its call with timeMin
\* the start day at 00:00:00 and timeMax the end day at 23:59:59, each as
\* YYYY-MM-DDTHH:MM:SSZ, whatever the order of the two days.
C8_WindowBounds ==
    /\ (pc \in {"display", "done"} /\ choice = "2"
          /\ Parses(start_date) /\ Parses(end_date))
         => Len(calls) = 1 /\ Windowed(calls[1])
    /\ \A k \in 1..Len(calls) :
         Windowed(calls[k])
           => LET s == strptime(start_date)
                  e == strptime(end_date)
              IN  /\ IsoShape(calls[k].timeMin)
                  /\ IsoShape(calls[k].timeMax)
                  /\ Instant(calls[k].timeMin)
                       = <<s.year, s.month, s.day, 0, 0, 0>>
                  /\ Instant(calls[k].timeMax)
                       = <<e.year, e.month, e.day, 23, 59, 59>>
                  /\ start_date = D_01_01_2024
                       => calls[k].timeMin = Z_2024_01_01_000000
                  /\ end_date = D_31_01_2024
                       => calls[k].timeMax = Z_2024_01_31_235959

\* C8 witness: a call issued with the start day later than the end day.
C8_Witness ==
    /\ start_date = D_31_01_2024
    /\ end_date = D_01_01_2024
    /\ Len(calls) = 1
    /\ calls[1].timeMin[10] = "1"
    /\ calls[1].timeMax = <<"2", "0", "2", "4", "-", "0", "1", "-", "0", "1",
                            "T", "2", "3", ":", "5", "9", ":", "5", "9", "Z">>

\* C9: each row's date and time come from dateTime when the record has it
\* and from date otherwise; the time is HH:MM:SS exactly when that string
\* holds a "T", and "All Day" otherwise.
C9_StartPrecedence ==
    \A k \in Tables :
        \A i \in 1..Len(stdout[k].rows) :
            LET row == stdout[k].rows[i]
                iso == Chosen(events[i])
            IN  /\ row.date = DateOf(iso)
                /\ row.time = IF Contains(iso, "T") THEN TimeOf(iso)
                              ELSE AllDay
                /\ events[i] = EvTimed
                     => /\ row.date = <<"1", "5", "/", "0", "3", "/",
                                        "2", "0", "2", "4">>
                        /\ row.time = <<"1", "4", ":", "3", "0", ":",
                                        "0", "0">>
                /\ events[i] = EvAllDay
                     => /\ row.date = <<"1", "5", "/", "0", "3", "/",
                                        "2", "0", "2", "4">>
                        /\ row.time = AllDay

\* C9 witness: a printed table with a record that has both dateTime and
\* date, and an all-day record.
C9_Witness ==
    \E k \in Tables :
        /\ Len(events) = 2
        /\ events[1] = EvLastSecond
        /\ events[2] = EvAllDay
        /\ stdout[k].rows[1].time = <<"2", "3", ":", "5", "9", ":", "5", "8">>
        /\ stdout[k].rows[2].time = AllDay

\* A field of a record when present and non-empty, the default otherwise.
OrDefault(e, k, default) ==
    IF k \in DOMAIN e THEN (IF e[k] = "" THEN default ELSE e[k]) ELSE default

\* C10: each row shows the summary, or "No Title" when it is absent or
\* empty, and the location, or "No Location" when it is absent or empty.
C10_Defaults ==
    \A k \in Tables :
        \A i \in 1..Len(stdout[k].rows) :
            /\ stdout[k].rows[i].name
                 = OrDefault(events[i], "summary", "No Title")
            /\ stdout[k].rows[i].location
                 = OrDefault(events[i], "location", "No Location")

====
